---- MODULE Spec2Model ----
(***************************************************************************)
(* LumeButton (src/cdn.js): one instance of the <lume-button> custom       *)
(* element, its attribute bag, its rendered shadow tree, its listeners,    *)
(* the deferred ripple-removal tasks, and the observable effects of the    *)
(* most recent operation.                                                  *)
(***************************************************************************)
EXTENDS Integers, Sequences, FiniteSets, TLC

\* ------------------------------------------------------------------------
\* Bounds of the model
\* ------------------------------------------------------------------------
MaxRipples == 1      \* ripple overlays with a pending removal task
MaxOwnProps == 2     \* properties set on the instance before the upgrade

\* ------------------------------------------------------------------------
\* JavaScript values: null, undefined, booleans and strings
\* ------------------------------------------------------------------------
Null == [t |-> "null", s |-> ""]
Undef == [t |-> "undefined", s |-> ""]
NoProp == [t |-> "none", s |-> ""]          \* "no own property of that name"
Str(x) == [t |-> "str", s |-> x]
Bool(b) == [t |-> "bool", s |-> IF b THEN "true" ELSE "false"]

\* ToString conversion applied by setAttribute to its value argument
ToStr(v) ==
  IF v.t = "str" THEN v.s
  ELSE IF v.t = "bool" THEN v.s
  ELSE IF v.t = "null" THEN "null"
  ELSE "undefined"

\* ToBoolean conversion applied by `if (value)` and `a || b`
Truthy(v) ==
  \/ v.t = "str" /\ v.s # ""
  \/ v.t = "bool" /\ v.s = "true"

\* ------------------------------------------------------------------------
\* Configuration keys
\* ------------------------------------------------------------------------
\* observedAttributes, in the order of the list.  "color" stands for the
\* style keys whose accessor has the attribute's own name (color, border,
\* radius, padding, width, height, shadow); "onclick-handler" is one of the
\* hyphenated keys, which have no accessor of that name.
observedAttributes ==
  << "variant", "size", "disabled", "href", "target", "color",
     "onclick-handler", "loading" >>

AttrNames == { observedAttributes[i] : i \in 1..Len(observedAttributes) }

\* keys that have a `set` accessor
SetterKeys == {"variant", "size", "disabled", "loading", "href"}
\* keys that have a `get` accessor of the same name
GetterKeys == {"variant", "size", "disabled", "loading", "href", "target", "color"}

validVariants ==
  {"primary", "secondary", "outlined", "ghost", "glow", "icon-btn", "link"}
validSizes == {"small", "medium", "large"}
validTargets == {"_self", "_blank", "_parent", "_top"}

\* ------------------------------------------------------------------------
\* Getters (a is the attribute bag: name -> Null or Str)
\* ------------------------------------------------------------------------
getAttribute(a, name) == a[name]
hasAttribute(a, name) == a[name] # Null

\* the getter without its membership test
variant_Unvalidated(a) ==
  LET raw == getAttribute(a, "variant")
  IN IF Truthy(raw) THEN raw.s ELSE "primary"

variant(a) ==
  LET raw == getAttribute(a, "variant")
      value == IF Truthy(raw) THEN raw.s ELSE "primary"
  IN IF value \in validVariants THEN value ELSE "primary"

size(a) ==
  LET raw == getAttribute(a, "size")
      value == IF Truthy(raw) THEN raw.s ELSE "medium"
  IN IF value \in validSizes THEN value ELSE "medium"

target(a) ==
  LET raw == getAttribute(a, "target")
      value == IF Truthy(raw) THEN raw.s ELSE "_self"
  IN IF value \in validTargets THEN value ELSE "_self"

disabled(a) == hasAttribute(a, "disabled")
loading(a) == hasAttribute(a, "loading")
href(a) == getAttribute(a, "href")
color(a) == getAttribute(a, "color")
onclickHandler(a) == getAttribute(a, "onclick-handler")

\* the gate of the three activation paths: either attribute is present
Gated(a) == a["disabled"] # Null \/ a["loading"] # Null

\* value returned by reading the property `name` of the instance
GetProp(a, name) ==
  IF name = "variant" THEN Str(variant(a))
  ELSE IF name = "size" THEN Str(size(a))
  ELSE IF name = "target" THEN Str(target(a))
  ELSE IF name = "disabled" THEN Bool(disabled(a))
  ELSE IF name = "loading" THEN Bool(loading(a))
  ELSE getAttribute(a, name)

\* ------------------------------------------------------------------------
\* Events and the effects log of one operation
\* ------------------------------------------------------------------------
NewEvent(type, key) ==
  [type |-> type, key |-> key, cancelable |-> TRUE,
   defaultPrevented |-> FALSE, propagationStopped |-> FALSE]

NoEvent == [type |-> "none", key |-> "", cancelable |-> FALSE,
            defaultPrevented |-> FALSE, propagationStopped |-> FALSE]

preventDefault(ev) == [ev EXCEPT !.defaultPrevented = ev.cancelable]
stopPropagation(ev) == [ev EXCEPT !.propagationStopped = TRUE]

EmptyLog(op, arg) ==
  [op |-> op,                 \* operation that ran last
   arg |-> arg,               \* its argument (a JavaScript value)
   name |-> "",               \* the key it was applied to
   ev |-> NoEvent,            \* the event it handled, in its final state
   gated |-> FALSE,           \* gate at delivery time
   handled |-> FALSE,         \* handleClick ran
   actionCalls |-> 0,         \* invocations of the custom action
   errors |-> 0,              \* console.error reports
   navs |-> << >>,            \* window.open / location.href assignments
   events |-> << >>,          \* lume-click events dispatched
   ripples |-> 0,             \* ripple overlays created
   renders |-> 0,             \* render() runs
   prevented |-> FALSE,       \* defaultPrevented when the href step began
   issues |-> << >>,          \* warnings returned by validate()
   threw |-> FALSE]           \* an exception left the operation

\* the content of the shadow root: the number of <style> sheets and of
\* activatable elements in it, the instance-scoped selector and the glow
\* rule of the sheet, and the class and attributes of the element
NoTree == [styleSheets |-> 0, elements |-> 0, sheetId |-> 0, glow |-> FALSE,
           kind |-> "none", id |-> 0, variant |-> "", size |-> "",
           disabledClass |-> FALSE, loadingClass |-> FALSE, href |-> Null,
           target |-> "", disabledAttr |-> FALSE, ariaDisabled |-> "",
           tabindex |-> 0, role |-> "", ariaBusy |-> FALSE, style |-> ""]

\* ------------------------------------------------------------------------
\* The instance as a record s; operations map records to records
\* ------------------------------------------------------------------------
\* s.attrs           attribute bag
\* s.own             plain own properties (set before the upgrade)
\* s.initialized     this._initialized
\* s.rippleCleanup   the element whose ripple listener this._rippleCleanup
\*                   removes: "cur" (the rendered one), "old" (a superseded
\*                   one), or "null"
\* s.instanceId      this._instanceId, 0 when unset
\* s.tree            the activatable element in the shadow root
\* s.rippleListeners number of ripple listeners attached to the rendered
\*                   element (cur) and to superseded elements (old)
\* s.ripples         parents ("cur" or "old") of the overlays awaiting their
\*                   removal task, oldest first
\* s.hostClick, s.hostKeydown   listeners attached to the instance
\* s.connected       the instance is in the document
\* s.random          next output of Math.random, as an identifier suffix
\* s.registry        number of definitions of "lume-button"
\* s.ev              event being dispatched
\* s.log             effects of the running operation
\* s.exc             an exception is propagating

generateInlineStyles(a) ==
  IF Truthy(color(a)) THEN "color: " \o color(a).s ELSE ""

\* Math.random: successive outputs differ (a collision of two 9-character
\* base-36 suffixes is not modelled)
NextRandom(r) == IF r = 1 THEN 2 ELSE 1

\* the identifier drawn anew on every call
getInstanceId_Regenerate(s) ==
  [s EXCEPT !.instanceId = s.random, !.random = NextRandom(@)]

getInstanceId(s) ==
  IF s.instanceId = 0
  THEN [s EXCEPT !.instanceId = s.random, !.random = NextRandom(@)]
  ELSE s

\* btn.removeEventListener("click", rippleHandler) of the closure
RemoveRippleListener(listeners, el) ==
  [listeners EXCEPT ![el] = IF @ > 0 THEN @ - 1 ELSE 0]

setupRippleEffect(s) ==
  LET btn == s.tree.kind # "none"
  IN IF btn /\ ~disabled(s.attrs) /\ ~loading(s.attrs)
     THEN LET cleaned ==
                IF s.rippleCleanup # "null"
                THEN RemoveRippleListener(s.rippleListeners, s.rippleCleanup)
                ELSE s.rippleListeners
          IN [s EXCEPT !.rippleListeners = [cleaned EXCEPT !.cur = @ + 1],
                       !.rippleCleanup = "cur"]
     ELSE s

\* shadowRoot.innerHTML = ...: the rendered element, with its listeners and
\* overlays, becomes a superseded element and a new element takes its place
\* the new markup appended to the content instead of replacing it
ReplaceTree_Append(s, tree) ==
  [s EXCEPT !.tree = [tree EXCEPT !.styleSheets = s.tree.styleSheets + 1,
                                  !.elements = s.tree.elements + 1],
            !.rippleListeners = [cur |-> 0, old |-> @.old + @.cur],
            !.rippleCleanup = IF @ = "cur" THEN "old" ELSE @,
            !.ripples = [i \in 1..Len(@) |-> "old"]]

ReplaceTree(s, tree) ==
  [s EXCEPT !.tree = tree,
            !.rippleListeners = [cur |-> 0, old |-> @.old + @.cur],
            !.rippleCleanup = IF @ = "cur" THEN "old" ELSE @,
            !.ripples = [i \in 1..Len(@) |-> "old"]]

render(s) ==
  LET a == s.attrs
      isLink == Truthy(href(a))
      isDisabled == disabled(a) \/ loading(a)
      s1 == getInstanceId(s)
      tree == [styleSheets |-> 1,
               elements |-> 1,
               sheetId |-> s1.instanceId,
               glow |-> variant(a) = "glow",
               kind |-> IF isLink THEN "a" ELSE "button",
               id |-> s1.instanceId,
               variant |-> variant(a),
               size |-> size(a),
               disabledClass |-> isDisabled,
               loadingClass |-> loading(a),
               href |-> IF isLink THEN href(a) ELSE Null,
               target |-> IF isLink THEN target(a) ELSE "",
               disabledAttr |-> isDisabled,
               ariaDisabled |-> IF isLink THEN ""
                                ELSE IF isDisabled THEN "true" ELSE "false",
               tabindex |-> IF isDisabled THEN -1 ELSE 0,
               role |-> IF isLink THEN "link" ELSE "button",
               ariaBusy |-> loading(a),
               style |-> generateInlineStyles(a)]
      s2 == [ReplaceTree(s1, tree) EXCEPT !.log.renders = @ + 1]
  IN setupRippleEffect(s2)

\* the reaction without the test of this._initialized
attributeChangedCallback_NoInitCheck(s, name, oldValue, newValue) ==
  IF oldValue # newValue THEN render(s) ELSE s

\* the reaction that ignores the removal of an attribute
attributeChangedCallback_SkipRemoval(s, name, oldValue, newValue) ==
  IF s.initialized /\ oldValue # newValue /\ newValue # Null
  THEN render(s) ELSE s

attributeChangedCallback(s, name, oldValue, newValue) ==
  IF s.initialized /\ oldValue # newValue THEN render(s) ELSE s

\* Element.setAttribute: stores ToString(value), then runs the reaction
setAttribute(s, name, value) ==
  LET old == s.attrs[name]
      new == Str(ToStr(value))
  IN attributeChangedCallback([s EXCEPT !.attrs[name] = new], name, old, new)

\* Element.removeAttribute: no reaction when the attribute is absent
removeAttribute(s, name) ==
  LET old == s.attrs[name]
  IN IF old = Null THEN s
     ELSE attributeChangedCallback([s EXCEPT !.attrs[name] = Null],
                                   name, old, Null)

\* the `set` accessors
setVariant(s, value) == setAttribute(s, "variant", value)
setSize(s, value) == setAttribute(s, "size", value)
setDisabled(s, value) ==
  IF Truthy(value) THEN setAttribute(s, "disabled", Str(""))
  ELSE removeAttribute(s, "disabled")
setLoading(s, value) ==
  IF Truthy(value) THEN setAttribute(s, "loading", Str(""))
  ELSE removeAttribute(s, "loading")
setHref(s, value) ==
  IF Truthy(value) THEN setAttribute(s, "href", value)
  ELSE removeAttribute(s, "href")

SetProp(s, name, value) ==
  IF name = "variant" THEN setVariant(s, value)
  ELSE IF name = "size" THEN setSize(s, value)
  ELSE IF name = "disabled" THEN setDisabled(s, value)
  ELSE IF name = "loading" THEN setLoading(s, value)
  ELSE setHref(s, value)

\* this[prop] = value inside the class body (strict mode): the setter when
\* there is one, a TypeError when the accessor has a getter only, a plain
\* own property when no accessor of that name exists
AssignProp(s, prop, value) ==
  IF prop \in SetterKeys THEN SetProp(s, prop, value)
  ELSE IF prop \in GetterKeys THEN [s EXCEPT !.exc = TRUE]
  ELSE [s EXCEPT !.own[prop] = value]

RECURSIVE upgradeFrom(_, _)
upgradeFrom(s, i) ==
  IF i > Len(observedAttributes) \/ s.exc THEN s
  ELSE LET prop == observedAttributes[i]
       IN IF s.own[prop] # NoProp
          THEN LET value == s.own[prop]
                   deleted == [s EXCEPT !.own[prop] = NoProp]
               IN upgradeFrom(AssignProp(deleted, prop, value), i + 1)
          ELSE upgradeFrom(s, i + 1)

_upgradeProperties(s) == upgradeFrom(s, 1)

setupEventListeners(s) == [s EXCEPT !.hostClick = TRUE, !.hostKeydown = TRUE]

removeEventListeners(s) ==
  LET s1 == [s EXCEPT !.hostClick = FALSE, !.hostKeydown = FALSE]
  IN IF s1.rippleCleanup # "null"
     THEN [s1 EXCEPT !.rippleListeners =
                        RemoveRippleListener(@, s1.rippleCleanup),
                     !.rippleCleanup = "null"]
     ELSE s1

connectedCallback(s) ==
  LET s1 == _upgradeProperties(s)
  IN IF s1.exc THEN s1
     ELSE [setupEventListeners(render(s1)) EXCEPT !.initialized = TRUE]

disconnectedCallback(s) == removeEventListeners(s)

\* ------------------------------------------------------------------------
\* Activation
\* ------------------------------------------------------------------------
\* The custom action is an opaque snippet; the bodies below are the ones the
\* model exercises: one that does not compile, one that throws, one that
\* calls event.preventDefault(), one that sets button.disabled = true, one
\* that sets button.loading = true and then button.variant = "ghost".
\* Any other non-empty body runs and does nothing.
CustomAction(s) ==
  LET body == onclickHandler(s.attrs).s
  IN IF body = "syntax" THEN [s EXCEPT !.exc = TRUE]
     ELSE LET s1 == [s EXCEPT !.log.actionCalls = @ + 1]
          IN IF body = "throw" THEN [s1 EXCEPT !.exc = TRUE]
             ELSE IF body = "prevent" THEN [s1 EXCEPT !.ev = preventDefault(@)]
             ELSE IF body = "disable" THEN setDisabled(s1, Bool(TRUE))
             ELSE IF body = "load"
             THEN setVariant(setLoading(s1, Bool(TRUE)), Str("ghost"))
             ELSE s1

\* the custom action run without the try/catch around it
TryCustomAction_NoCatch(s) == CustomAction(s)

\* try { new Function(...); handler.call(...) } catch (error) { console.error }
TryCustomAction(s) ==
  LET s1 == CustomAction(s)
  IN IF s1.exc THEN [s1 EXCEPT !.exc = FALSE, !.log.errors = @ + 1] ELSE s1

NavOpen(url) ==
  [api |-> "window.open", url |-> url, ctx |-> "_blank",
   features |-> "noopener,noreferrer"]
NavLocation(url) ==
  [api |-> "location.href", url |-> url, ctx |-> "", features |-> ""]

\* the href step without the test of event.defaultPrevented
Navigate_IgnorePrevented(s) ==
  IF Truthy(href(s.attrs))
  THEN LET s1 == [s EXCEPT !.ev = preventDefault(@)]
       IN IF target(s.attrs) = "_blank"
          THEN [s1 EXCEPT !.log.navs = Append(@, NavOpen(href(s.attrs).s))]
          ELSE [s1 EXCEPT !.log.navs = Append(@, NavLocation(href(s.attrs).s))]
  ELSE s

\* if (this.href && !event.defaultPrevented) { ... }
Navigate(s) ==
  IF Truthy(href(s.attrs)) /\ ~s.ev.defaultPrevented
  THEN LET s1 == [s EXCEPT !.ev = preventDefault(@)]
       IN IF target(s.attrs) = "_blank"
          THEN [s1 EXCEPT !.log.navs = Append(@, NavOpen(href(s.attrs).s))]
          ELSE [s1 EXCEPT !.log.navs = Append(@, NavLocation(href(s.attrs).s))]
  ELSE s

\* this.dispatchEvent(new CustomEvent("lume-click", ...))
DispatchLumeClick(s) ==
  [s EXCEPT !.log.events =
     Append(@, [type |-> "lume-click", bubbles |-> TRUE, composed |-> TRUE,
                detail |-> [button |-> "this",
                            originalEvent |-> s.ev.type,
                            href |-> href(s.attrs),
                            variant |-> variant(s.attrs),
                            size |-> size(s.attrs)]])]

\* the activation handler with a gate that tests disabled only
handleClick_GateDisabledOnly(s) ==
  LET h == [s EXCEPT !.log.handled = TRUE]
  IN IF disabled(h.attrs)
     THEN [h EXCEPT !.ev = stopPropagation(preventDefault(@))]
     ELSE LET s1 == IF Truthy(onclickHandler(h.attrs))
                    THEN TryCustomAction(h) ELSE h
          IN IF s1.exc THEN s1
             ELSE DispatchLumeClick(
                    Navigate([s1 EXCEPT !.log.prevented = s1.ev.defaultPrevented]))

\* the activation handler testing the gate again after the custom action
handleClick_GateAfterAction(s) ==
  LET h == [s EXCEPT !.log.handled = TRUE]
  IN IF disabled(h.attrs) \/ loading(h.attrs)
     THEN [h EXCEPT !.ev = stopPropagation(preventDefault(@))]
     ELSE LET s1 == IF Truthy(onclickHandler(h.attrs))
                    THEN TryCustomAction(h) ELSE h
          IN IF s1.exc \/ disabled(s1.attrs) \/ loading(s1.attrs) THEN s1
             ELSE DispatchLumeClick(
                    Navigate([s1 EXCEPT !.log.prevented = s1.ev.defaultPrevented]))

handleClick(s) ==
  LET h == [s EXCEPT !.log.handled = TRUE]
  IN IF disabled(h.attrs) \/ loading(h.attrs)
     THEN [h EXCEPT !.ev = stopPropagation(preventDefault(@))]
     ELSE LET s1 == IF Truthy(onclickHandler(h.attrs))
                    THEN TryCustomAction(h) ELSE h
          IN IF s1.exc THEN s1
             ELSE DispatchLumeClick(
                    Navigate([s1 EXCEPT !.log.prevented = s1.ev.defaultPrevented]))

handleKeydown(s) ==
  IF (s.ev.key = "Enter" \/ s.ev.key = " ")
     /\ ~disabled(s.attrs) /\ ~loading(s.attrs)
  THEN handleClick([s EXCEPT !.ev = preventDefault(@)])
  ELSE s

createRipple(s, button) ==
  IF disabled(s.attrs) \/ loading(s.attrs) \/ variant(s.attrs) = "link"
  THEN s
  ELSE [s EXCEPT !.ripples = Append(@, button), !.log.ripples = @ + 1]

RECURSIVE RunRippleListeners(_, _, _)
RunRippleListeners(s, button, n) ==
  IF n = 0 THEN s
  ELSE RunRippleListeners(createRipple(s, button), button, n - 1)

\* A click event whose target is inside the rendered element: the ripple
\* listeners of the element run first, then the event bubbles out of the
\* shadow root to the listeners of the instance.
DispatchClick(s) ==
  LET s0 == [s EXCEPT !.ev = NewEvent("click", "")]
      s1 == IF s.tree.kind # "none"
            THEN RunRippleListeners(s0, "cur", s.rippleListeners.cur)
            ELSE s0
  IN IF s1.hostClick /\ ~s1.ev.propagationStopped THEN handleClick(s1) ELSE s1

\* A keydown event that reaches the instance
DispatchKeydown(s, key) ==
  LET s0 == [s EXCEPT !.ev = NewEvent("keydown", key)]
  IN IF s0.hostKeydown THEN handleKeydown(s0) ELSE s0

\* the public click() method
click(s) ==
  IF ~disabled(s.attrs) /\ ~loading(s.attrs)
  THEN IF s.tree.kind # "none" THEN DispatchClick(s) ELSE s
  ELSE s

\* the deferred task removing the overlay from the rendered element, which
\* is not its parent once the element has been superseded
RippleTimeout_FromRendered(s) ==
  IF Head(s.ripples) = "old" THEN [s EXCEPT !.exc = TRUE]
  ELSE [s EXCEPT !.ripples = Tail(@)]

\* the deferred task of createRipple: if (ripple.parentNode) ripple.remove()
\* (the overlay stays a child of its element, rendered or superseded, until
\* this task runs, so parentNode is never null here)
RippleTimeout(s) == [s EXCEPT !.ripples = Tail(@)]

\* updateStyle(property, value)
updateStyle(s, property, value) ==
  IF value = Null \/ value = Undef THEN removeAttribute(s, property)
  ELSE setAttribute(s, property, value)

\* validate() with the conjunction written as a disjunction
validate_Either(s) ==
  IF disabled(s.attrs) \/ loading(s.attrs)
  THEN [s EXCEPT !.log.issues =
          Append(@, "Button cannot be both disabled and loading")]
  ELSE s

\* validate(): the list it returns is s.log.issues
validate(s) ==
  IF disabled(s.attrs) /\ loading(s.attrs)
  THEN [s EXCEPT !.log.issues =
          Append(@, "Button cannot be both disabled and loading")]
  ELSE s

\* customElements.define: throws when the name is already defined
define(s) ==
  IF s.registry = 0 THEN [s EXCEPT !.registry = 1]
  ELSE [s EXCEPT !.exc = TRUE]

\* the registration step without its guard
RegisterElement_Unguarded(s) == define(s)

\* if (!customElements.get("lume-button")) customElements.define(...)
RegisterElement(s) ==
  IF s.registry = 0 THEN define(s) ELSE s

\* ------------------------------------------------------------------------
\* State
\* ------------------------------------------------------------------------
VARIABLES
  attrs,            \* attribute bag of the instance
  ownProps,         \* plain own properties of the instance
  initialized,      \* this._initialized
  rippleCleanup,    \* this._rippleCleanup
  instanceId,       \* this._instanceId
  tree,             \* the activatable element in the shadow root
  rippleListeners,  \* ripple listeners per element
  ripples,          \* overlays awaiting their removal task
  hostClick,        \* click listener of the instance attached
  hostKeydown,      \* keydown listener of the instance attached
  connected,        \* the instance is in the document
  random,           \* next output of Math.random
  registry,         \* number of definitions of "lume-button" in customElements
  last              \* effects of the operation that ran last

vars == << attrs, ownProps, initialized, rippleCleanup, instanceId, tree,
           rippleListeners, ripples, hostClick, hostKeydown,
           connected, random, registry, last >>

\* identifier suffixes Math.random can produce
IdSource == {1, 2}

\* values the environment writes, per key
AttrValues(name) ==
  IF name = "variant" THEN {"link", "bogus"}
  ELSE IF name = "size" THEN {"huge"}
  ELSE IF name = "href" THEN {"", "u"}
  ELSE IF name = "target" THEN {"_blank", "_parent"}
  ELSE IF name = "onclick-handler" THEN {"throw", "syntax", "prevent", "disable"}
  ELSE IF name \in {"disabled", "loading"} THEN {""}
  ELSE {}

PropValues(name) ==
  IF name \in {"disabled", "loading"} THEN {Bool(TRUE), Bool(FALSE)}
  ELSE IF name = "href" THEN {Str("u"), Str(""), Null}
  ELSE IF name = "variant" THEN {Str("link"), Null}
  ELSE {Str("large"), Undef}

Keys == {"Enter", " ", "a"}

\* raw values of the enum keys: every member, the empty string, a stranger
WideAttrValues(name) ==
  IF name = "variant" THEN validVariants \cup {"", "bogus"}
  ELSE IF name = "size" THEN validSizes \cup {"", "huge"}
  ELSE validTargets \cup {"", "bogus"}

\* properties and values passed to updateStyle
StyleKeys == {"color", "href"}
StyleValues == {Null, Undef, Str(""), Str("red")}

\* values a consumer assigns to a property before the upgrade
OwnValues(name) ==
  IF name \in {"disabled", "loading"} THEN {Bool(TRUE)}
  ELSE IF name = "variant" THEN {Str("link")}
  ELSE IF name = "size" THEN {Str("large")}
  ELSE IF name = "href" THEN {Str("u")}
  ELSE IF name = "target" THEN {Str("_blank")}
  ELSE IF name = "color" THEN {Str("red")}
  ELSE {Str("prevent")}

Cur ==
  [attrs |-> attrs, own |-> ownProps, initialized |-> initialized,
   rippleCleanup |-> rippleCleanup, instanceId |-> instanceId,
   tree |-> tree, rippleListeners |-> rippleListeners,
   ripples |-> ripples, hostClick |-> hostClick, hostKeydown |-> hostKeydown,
   connected |-> connected, random |-> random, registry |-> registry,
   ev |-> NoEvent, log |-> EmptyLog("init", Null), exc |-> FALSE]

\* the instance at the start of operation op
Begin(op, name, arg) ==
  [Cur EXCEPT !.log = [EmptyLog(op, arg) EXCEPT !.name = name,
                                                !.gated = Gated(attrs)]]

\* the instance after the operation; the bounds cut the run off here
Commit(s) ==
  /\ Len(s.ripples) <= MaxRipples
  /\ attrs' = s.attrs
  /\ ownProps' = s.own
  /\ initialized' = s.initialized
  /\ rippleCleanup' = s.rippleCleanup
  /\ instanceId' = s.instanceId
  /\ tree' = s.tree
  /\ rippleListeners' = s.rippleListeners
  /\ ripples' = s.ripples
  /\ hostClick' = s.hostClick
  /\ hostKeydown' = s.hostKeydown
  /\ connected' = s.connected
  /\ random' = s.random
  /\ registry' = s.registry
  /\ last' = [s.log EXCEPT !.ev = s.ev, !.threw = s.exc]

\* the state after the constructor of an instance created when the element
\* is already defined: no property was set before the upgrade
Init ==
  /\ attrs = [n \in AttrNames |-> Null]
  /\ ownProps = [n \in AttrNames |-> NoProp]
  /\ initialized = FALSE
  /\ rippleCleanup = "null"
  /\ instanceId = 0
  /\ tree = NoTree
  /\ rippleListeners = [cur |-> 0, old |-> 0]
  /\ ripples = << >>
  /\ hostClick = FALSE
  /\ hostKeydown = FALSE
  /\ connected = FALSE
  /\ random \in IdSource
  /\ registry = 1
  /\ last = EmptyLog("init", Null)

\* ------------------------------------------------------------------------
\* Operations
\* ------------------------------------------------------------------------
\* the instance is inserted into the document
\* (the reaction runs on upgraded instances only; the log keeps whether the
\* instance had been initialized before)
Connect ==
  /\ ~connected
  /\ registry = 1
  /\ Commit(connectedCallback([Begin("connect", "", Bool(initialized))
                                 EXCEPT !.connected = TRUE]))

\* the instance is removed from the document
Disconnect ==
  /\ connected
  /\ Commit(disconnectedCallback([Begin("disconnect", "", Null) EXCEPT !.connected = FALSE]))

\* el.setAttribute(name, v)
SetAttribute(name, v) ==
  /\ name \in AttrNames
  /\ Commit(setAttribute(Begin("setAttribute", "", Null), name, Str(v)))

\* el.removeAttribute(name)
RemoveAttribute(name) ==
  /\ attrs[name] # Null
  /\ Commit(removeAttribute(Begin("removeAttribute", "", Null), name))

\* el[name] = v through the class's set accessor
WriteProp(name, v) ==
  /\ ownProps[name] = NoProp
  /\ Commit(SetProp(Begin("write", name, v), name, v))

\* el[name] is read through the class's get accessor
ReadProp(name) ==
  /\ ownProps[name] = NoProp
  /\ Commit([Begin("read", name, Null) EXCEPT !.log.arg = GetProp(attrs, name)])

\* a click event dispatched at the rendered element (or at the instance
\* when nothing is rendered)
PointerClick ==
  /\ connected \/ tree.kind # "none"
  /\ Commit(DispatchClick(Begin("click", "", Null)))

\* a keydown event dispatched at the instance
KeyDown(key) ==
  /\ connected \/ tree.kind # "none"
  /\ Commit(DispatchKeydown(Begin("keydown", "", Str(key)), key))

\* el.click(), callable in every state of the instance
ProgrammaticClick ==
  /\ connected \in BOOLEAN
  /\ Commit(click(Begin("click()", "", Null)))

\* the 600ms task of the oldest pending overlay runs
TimerFire ==
  /\ ripples # << >>
  /\ Commit(RippleTimeout(Begin("timer", "", Str(Head(ripples)))))

\* el.validate()
Validate ==
  /\ registry = 1
  /\ Commit(validate(Begin("validate", "", Null)))

\* el.updateStyle(property, v)
UpdateStyle(property, v) ==
  /\ registry = 1
  /\ Commit(updateStyle(Begin("updateStyle", property, v), property, v))

\* the module is evaluated: the registration step runs; the log keeps
\* whether the name was defined before
Register ==
  /\ registry \in {0, 1}
  /\ Commit(RegisterElement(Begin("register", "", Bool(registry = 1))))

Next ==
  \/ Connect
  \/ Disconnect
  \/ \E name \in AttrNames : \E v \in AttrValues(name) : SetAttribute(name, v)
  \/ \E name \in AttrNames : RemoveAttribute(name)
  \/ PointerClick
  \/ \E key \in Keys : KeyDown(key)
  \/ ProgrammaticClick
  \/ TimerFire

Spec == Init /\ [][Next]_vars

\* ------------------------------------------------------------------------
\* The resolution of the enum keys, over every raw value
\* ------------------------------------------------------------------------
EnumKeys == {"variant", "size", "target"}

NextEnum ==
  \/ \E name \in EnumKeys : \E v \in WideAttrValues(name) : SetAttribute(name, v)
  \/ \E name \in EnumKeys : RemoveAttribute(name)
  \/ \E name \in EnumKeys : ReadProp(name)

EnumSpec == Init /\ [][NextEnum]_vars

\* ------------------------------------------------------------------------
\* The read/write accessors of a connected or unconnected instance
\* ------------------------------------------------------------------------
NextAccessor ==
  \/ Connect
  \/ Disconnect
  \/ Validate
  \/ \E property \in StyleKeys : \E v \in StyleValues : UpdateStyle(property, v)
  \/ \E name \in SetterKeys : \E v \in PropValues(name) : WriteProp(name, v)
  \/ \E name \in SetterKeys : RemoveAttribute(name)
  \/ \E name \in SetterKeys : ReadProp(name)

AccessorSpec == Init /\ [][NextAccessor]_vars

\* ------------------------------------------------------------------------
\* The upgrade of an instance created before the element was defined
\* ------------------------------------------------------------------------
\* the state after the constructor ran on an element that already carried
\* plain own properties
InitUpgrade ==
  /\ attrs = [n \in AttrNames |-> Null]
  /\ ownProps \in [AttrNames -> {NoProp} \cup UNION {OwnValues(n) : n \in AttrNames}]
  /\ \A n \in AttrNames : ownProps[n] # NoProp => ownProps[n] \in OwnValues(n)
  /\ Cardinality({n \in AttrNames : ownProps[n] # NoProp}) <= MaxOwnProps
  /\ initialized = FALSE
  /\ rippleCleanup = "null"
  /\ instanceId = 0
  /\ tree = NoTree
  /\ rippleListeners = [cur |-> 0, old |-> 0]
  /\ ripples = << >>
  /\ hostClick = FALSE
  /\ hostKeydown = FALSE
  /\ connected = FALSE
  /\ random \in IdSource
  /\ registry = 0
  /\ last = EmptyLog("init", Null)

UpgradeAttrs == {"disabled", "href"}

NextUpgrade ==
  \/ Register
  \/ Connect
  \/ Disconnect
  \/ \E name \in UpgradeAttrs : \E v \in AttrValues(name) : SetAttribute(name, v)
  \/ \E name \in UpgradeAttrs : RemoveAttribute(name)
  \/ PointerClick
  \/ \E key \in Keys : KeyDown(key)
  \/ ProgrammaticClick
  \/ TimerFire

UpgradeSpec == InitUpgrade /\ [][NextUpgrade]_vars

\* The overlays and their deferred tasks: the instance is connected,
\* disconnected, re-rendered by attribute changes and clicked, and the
\* event loop runs every task it holds: a pending ripple-removal task is
\* not postponed forever (weak fairness of TimerFire).
RippleAttrs == {"disabled", "variant", "href"}

NextRipple ==
  \/ Connect
  \/ Disconnect
  \/ \E name \in RippleAttrs : \E v \in AttrValues(name) : SetAttribute(name, v)
  \/ \E name \in RippleAttrs : RemoveAttribute(name)
  \/ PointerClick
  \/ TimerFire

RippleSpec == Init /\ [][NextRipple]_vars /\ WF_vars(TimerFire)

\* Activations whose custom action changes the instance: the custom action
\* gates the instance (and restyles it), the attributes are removed again
\* between activations.
ReentrantAttrs == {"onclick-handler", "href", "target", "disabled", "loading"}

ReentrantValues(name) ==
  IF name = "onclick-handler" THEN {"disable", "load", "prevent"}
  ELSE IF name = "href" THEN {"u"}
  ELSE IF name = "target" THEN {"_blank"}
  ELSE {""}

NextReentrant ==
  \/ Connect
  \/ Disconnect
  \/ \E name \in ReentrantAttrs :
        \E v \in ReentrantValues(name) : SetAttribute(name, v)
  \/ \E name \in ReentrantAttrs \cup {"variant"} : RemoveAttribute(name)
  \/ PointerClick
  \/ \E key \in Keys : KeyDown(key)
  \/ ProgrammaticClick
  \/ TimerFire

ReentrantSpec == Init /\ [][NextReentrant]_vars

\* ------------------------------------------------------------------------
\* Properties
\* ------------------------------------------------------------------------
ActivationKeys == {"Enter", " "}

\* the operation that ran last was an activation by one of the three paths
LastWasActivation ==
  \/ last.op \in {"click", "click()"}
  \/ last.op = "keydown" /\ last.ev.key \in ActivationKeys

\* C1: an activation delivered while the instance is gated (disabled or
\* loading present at delivery), by pointer click, Enter/space keydown or
\* click(), invokes no custom action, performs no navigation and dispatches
\* no lume-click.
C1_GatedActivationHasNoEffect ==
  (LastWasActivation /\ last.gated) =>
     /\ last.actionCalls = 0
     /\ last.navs = << >>
     /\ last.events = << >>

\* a gated pointer click reached handleClick on an instance that has both an
\* href and a custom action
C1_Witness ==
  /\ last.op = "click" /\ last.gated /\ last.handled
  /\ loading(attrs)
  /\ Truthy(href(attrs))
  /\ Truthy(onclickHandler(attrs))

\* bodies of the custom action whose construction or invocation fails
FailingBodies == {"syntax", "throw"}

\* C2: when handleClick runs ungated and the custom action fails to
\* construct or throws, nothing is thrown out of handleClick, navigation is
\* performed iff href is set and the event's default is not prevented, and
\* exactly one lume-click is dispatched.
C2_FailingActionIsIsolated ==
  (last.handled /\ ~last.gated /\ onclickHandler(attrs).s \in FailingBodies) =>
     /\ ~last.threw
     /\ Len(last.events) = 1
     /\ (Len(last.navs) = 1) <=> (Truthy(href(attrs)) /\ ~last.prevented)
     /\ Len(last.navs) <= 1

\* a throwing custom action ran on a pointer click and the navigation and
\* the notification followed
C2_Witness ==
  /\ last.op = "click" /\ last.handled /\ ~last.gated
  /\ onclickHandler(attrs) = Str("throw")
  /\ last.actionCalls = 1 /\ last.errors = 1
  /\ Len(last.navs) = 1 /\ Len(last.events) = 1

\* C3: an Enter or space keydown handled on an ungated instance has the
\* effects a pointer click would have in the same state: the same
\* custom-action invocations, the same navigation, one lume-click with the
\* same configuration values.
C3_KeydownActsAsClick ==
  [][ (/\ last'.op = "keydown"
       /\ last'.ev.key \in ActivationKeys
       /\ hostKeydown /\ hostClick
       /\ ~Gated(attrs))
      => LET c == DispatchClick(Begin("click", "", Null)).log
         IN /\ last'.actionCalls = c.actionCalls
            /\ last'.navs = c.navs
            /\ Len(last'.events) = 1
            /\ Len(c.events) = 1
            /\ last'.events[1].detail.href = c.events[1].detail.href
            /\ last'.events[1].detail.variant = c.events[1].detail.variant
            /\ last'.events[1].detail.size = c.events[1].detail.size ]_vars

\* the navigation the href step owes for the current attributes
ExpectedNav ==
  IF target(attrs) = "_blank" THEN NavOpen(href(attrs).s)
  ELSE NavLocation(href(attrs).s)

\* C4: on an ungated pointer click handled by handleClick, navigation is
\* performed exactly when href is non-empty and no earlier step (the custom
\* action) prevented the event's default; target _blank then opens one new
\* context with noopener,noreferrer and leaves the location alone, any other
\* target sets the location to href and opens nothing.
C4_NavigationRule ==
  (last.op = "click" /\ last.handled /\ ~last.gated) =>
     LET preventedEarlier == onclickHandler(attrs) = Str("prevent")
     IN IF Truthy(href(attrs)) /\ ~preventedEarlier
        THEN /\ last.navs = << ExpectedNav >>
             /\ (target(attrs) = "_blank")
                  <=> (last.navs[1].api = "window.open")
             /\ (target(attrs) = "_blank")
                  => last.navs[1].features = "noopener,noreferrer"
             /\ last.navs[1].url = href(attrs).s
        ELSE last.navs = << >>

\* a pointer click opened a new context for target _blank
C4_Witness ==
  /\ last.op = "click" /\ last.handled /\ ~last.gated
  /\ target(attrs) = "_blank"
  /\ last.navs = << NavOpen("u") >>

\* C5: while the instance is connected and ungated, a pointer click results
\* in exactly one lume-click, bubbling and composed, whose detail carries
\* the instance, the originating event, the href attribute value and a
\* variant and a size that are members of their enums.
C5_ExactlyOneNotification ==
  (last.op = "click" /\ connected /\ ~last.gated) =>
     /\ Len(last.events) = 1
     /\ last.events[1].type = "lume-click"
     /\ last.events[1].bubbles /\ last.events[1].composed
     /\ last.events[1].detail.button = "this"
     /\ last.events[1].detail.originalEvent = "click"
     /\ last.events[1].detail.href = attrs["href"]
     /\ last.events[1].detail.variant \in
          {"primary", "secondary", "outlined", "ghost", "glow", "icon-btn", "link"}
     /\ last.events[1].detail.size \in {"small", "medium", "large"}

\* C6: while the instance is Unbound (disconnected after having been
\* connected), no click, keydown or ripple listener of the instance is
\* attached to it or to its rendered element, and a replayed activation
\* event has no effect.
C6_UnboundHasNoListeners ==
  (initialized /\ ~connected) =>
     /\ ~hostClick
     /\ ~hostKeydown
     /\ rippleListeners.cur = 0
     /\ (last.op \in {"click", "keydown"} =>
           /\ last.ripples = 0
           /\ last.events = << >>
           /\ last.navs = << >>)

\* C7: every activation of a connected instance (pointer click, Enter/space
\* keydown, click()) creates no ripple overlay when the variant is link, and
\* exactly one when the variant is another value and the instance is not
\* gated; the removal task of an overlay removes it.
C7_RipplePerActivation ==
  [][ /\ (/\ connected
          /\ \/ last'.op \in {"click", "click()"}
             \/ last'.op = "keydown" /\ last'.ev.key \in ActivationKeys)
         => /\ variant(attrs) = "link" => last'.ripples = 0
            /\ (variant(attrs) # "link" /\ ~Gated(attrs)) => last'.ripples = 1
      /\ last'.op = "timer" => Len(ripples') = Len(ripples) - 1 ]_vars

\* keys whose attribute is a presence flag
BooleanKeys == {"disabled", "loading"}

\* C8: for every recognized key that is a plain own property when the
\* instance is first connected, connectedCallback passes the value through
\* the attribute-setting path (the attribute then reflects it), leaves no
\* own property of that name, and completes, so that the instance is
\* rendered and initialized.
C8_UpgradeAbsorbsOwnProperties ==
  [][ (last'.op = "connect" /\ ~initialized) =>
        /\ ~last'.threw
        /\ initialized'
        /\ tree'.kind # "none"
        /\ \A k \in AttrNames :
             ownProps[k] # NoProp =>
               /\ ownProps'[k] = NoProp
               /\ IF k \in BooleanKeys
                  THEN (attrs'[k] # Null) <=> Truthy(ownProps[k])
                  ELSE attrs'[k] = Str(ToStr(ownProps[k])) ]_vars

\* C9: after a boolean is written to disabled or loading, reading the
\* property returns that boolean; after a string is written to href,
\* reading href returns that string, the empty string included.
C9_WriteReadRoundTrip ==
  (last.op = "write") =>
     /\ (last.name \in BooleanKeys /\ last.arg.t = "bool")
          => GetProp(attrs, last.name) = last.arg
     /\ (last.name = "href" /\ last.arg.t = "str")
          => GetProp(attrs, "href") = last.arg

\* the documented enum and default of an enum key
EnumOf(k) ==
  IF k = "variant"
  THEN {"primary", "secondary", "outlined", "ghost", "glow", "icon-btn", "link"}
  ELSE IF k = "size" THEN {"small", "medium", "large"}
  ELSE {"_self", "_blank", "_parent", "_top"}

DefaultOf(k) ==
  IF k = "variant" THEN "primary" ELSE IF k = "size" THEN "medium" ELSE "_self"

\* C10: reading variant, size or target returns the raw attribute value
\* when it is a member of the enum and the documented default (primary,
\* medium, _self) when the attribute is absent, empty or any other string;
\* the value read is always a member of the enum.
C10_EnumResolution ==
  (last.op = "read" /\ last.name \in EnumKeys) =>
     LET raw == attrs[last.name]
     IN /\ (raw # Null /\ raw.s \in EnumOf(last.name)) => last.arg = raw
        /\ (raw = Null \/ raw.s \notin EnumOf(last.name))
              => last.arg = Str(DefaultOf(last.name))
        /\ last.arg.s \in EnumOf(last.name)

\* variant was read while its raw value was a string outside the enum
C10_Witness ==
  /\ last.op = "read" /\ last.name = "variant"
  /\ attrs["variant"] = Str("bogus")
  /\ attrs["size"] = Str("")
  /\ attrs["target"] = Str("_top")
  /\ last.arg = Str("primary")

\* ------------------------------------------------------------------------
\* Queries, re-rendering and registration
\* ------------------------------------------------------------------------

\* C11: validate() returns a list holding exactly one warning when the
\* disabled and the loading attribute are both present and the empty list
\* otherwise; it changes no attribute and renders nothing.
C11_ValidateIsPureQuery ==
  [][ (last'.op = "validate") =>
        /\ Len(last'.issues) =
             (IF attrs["disabled"] # Null /\ attrs["loading"] # Null
              THEN 1 ELSE 0)
        /\ attrs' = attrs
        /\ tree' = tree
        /\ last'.renders = 0
        /\ ~last'.threw ]_vars

\* validate() returned its warning on a rendered instance
C11_Witness ==
  /\ last.op = "validate"
  /\ initialized
  /\ attrs["disabled"] # Null /\ attrs["loading"] # Null
  /\ Len(last.issues) = 1

\* C12: a mutation of an observed attribute re-renders exactly when the
\* instance is initialized (a connectedCallback has completed) and the old
\* and the new value differ.  A mutation before that, the ones made while
\* connectedCallback absorbs pre-upgrade properties included, renders
\* nothing (the reaction renders once, by its own call), and so does a
\* mutation to the same value.
C12_RenderOnEffectiveMutation ==
  [][ /\ (last'.op \in {"setAttribute", "removeAttribute"}) =>
           last'.renders = (IF initialized /\ attrs' # attrs THEN 1 ELSE 0)
      /\ (last'.op = "connect") =>
           last'.renders = (IF last'.threw THEN 0 ELSE 1) ]_vars

\* the first connectedCallback absorbed a variant set before the upgrade
\* and rendered once
C12_Witness ==
  /\ last.op = "connect" /\ last.arg = Bool(FALSE)
  /\ attrs["variant"] # Null
  /\ initialized
  /\ last.renders = 1

\* C13: rendering again with an unchanged configuration (the render of a
\* reconnection, the attributes being what the previous render saw) gives
\* the same style sheet and markup as before, and every render replaces the
\* previous content: the shadow root holds exactly one style sheet and one
\* activatable element.
C13_RenderIsIdempotent ==
  [][ /\ (last'.op = "connect" /\ initialized /\ last'.renders = 1
            /\ attrs' = attrs) => tree' = tree
      /\ (tree'.kind # "none") =>
            (tree'.styleSheets = 1 /\ tree'.elements = 1) ]_vars

\* a reconnection rendered again a link configured by its attributes
C13_Witness ==
  /\ last.op = "connect" /\ last.arg = Bool(TRUE)
  /\ last.renders = 1
  /\ attrs["href"] = Str("u") /\ attrs["variant"] = Str("link")
  /\ tree.kind = "a" /\ tree.styleSheets = 1 /\ tree.elements = 1

\* C14 as stated: every activation event delivered to the bound instance
\* while it is gated, a pointer click or an Enter/space keydown, ends with
\* its default prevented and its propagation stopped.
C14_GatedActivationSuppressed ==
  (/\ last.gated /\ connected
   /\ \/ last.op = "click"
      \/ last.op = "keydown" /\ last.ev.key \in ActivationKeys)
    => (last.ev.defaultPrevented /\ last.ev.propagationStopped)

\* C14, amended: a pointer click delivered to the bound instance while it
\* is gated ends with its default prevented and its propagation stopped; a
\* keydown delivered while it is gated is left as it came, neither
\* prevented nor stopped, and does not reach handleClick.
C14_GatedClickSuppressedKeydownIgnored ==
  /\ (last.op = "click" /\ last.gated /\ connected)
       => (last.handled /\ last.ev.defaultPrevented /\ last.ev.propagationStopped)
  /\ (last.op = "keydown" /\ last.gated)
       => (~last.handled /\ ~last.ev.defaultPrevented
             /\ ~last.ev.propagationStopped)

\* an Enter keydown was delivered to a bound, disabled instance
C14_Witness ==
  /\ last.op = "keydown" /\ last.ev.key = "Enter"
  /\ last.gated /\ connected /\ hostKeydown
  /\ attrs["disabled"] # Null

\* the keys whose writes the claim C15 covers
ValueKeys == {"variant", "size", "href"}

\* C15: a write to variant, size or href, and updateStyle(property, value),
\* removes the attribute when the value is null or undefined and sets the
\* attribute to the value, the empty string included, otherwise.
C15_WritesClearByNullishness ==
  (\/ last.op = "write" /\ last.name \in ValueKeys
   \/ last.op = "updateStyle")
    => attrs[last.name] =
         (IF last.arg = Null \/ last.arg = Undef THEN Null
          ELSE Str(ToStr(last.arg)))

\* C16: the instance identifier is generated at most once: once set it
\* never changes, and every render, across attribute changes, disconnects
\* and reconnects, puts that identifier in the class of the element and in
\* the hover/active selectors of the sheet.
C16_InstanceIdIsStable ==
  [][ /\ (instanceId # 0) => (instanceId' = instanceId)
      /\ (tree'.kind # "none") =>
           /\ instanceId' # 0
           /\ tree'.id = instanceId'
           /\ tree'.sheetId = instanceId' ]_vars

\* a reconnection rendered with the identifier of the first render, the
\* random source having moved on since
C16_Witness ==
  /\ last.op = "connect" /\ last.arg = Bool(TRUE) /\ last.renders = 1
  /\ instanceId # 0 /\ random # instanceId
  /\ tree.id = instanceId /\ tree.sheetId = instanceId

\* C17: however many times the registration step is evaluated, the registry
\* holds exactly one definition of lume-button afterwards and no
\* evaluation raises the double-registration error; an evaluation that
\* finds the name defined leaves the registry as it was.
C17_RegistrationIsIdempotent ==
  [][ (last'.op = "register") =>
        /\ registry' = 1
        /\ ~last'.threw
        /\ (registry = 1) => (registry' = registry) ]_vars

\* the registration step was evaluated again after the element had been
\* defined and an instance upgraded
C17_Witness ==
  /\ last.op = "register" /\ last.arg = Bool(TRUE)
  /\ registry = 1
  /\ initialized
  /\ ~last.threw

\* C18: after every render, of a gated or an ungated instance, the ripple
\* listener attached by an earlier render has been detached: no ripple
\* listener stays on a superseded element and the rendered element carries
\* at most one.
C18_RippleListenerFollowsRender ==
  (tree.kind # "none") =>
     /\ rippleListeners.old = 0
     /\ rippleListeners.cur <= 1

\* C19: in every state after the first render, between operations, the
\* rendered tree is the one of the current attribute values: the element is
\* a link iff href is present and non-empty, it has the gating class iff
\* disabled or loading is present, its tabindex is -1 iff it is gated and 0
\* otherwise, its role is link iff it is a link, and it has aria-disabled
\* iff it is a button, with the gated state as its value.
C19_TreeFollowsAttributes ==
  (tree.kind # "none") =>
     LET hrefSet == attrs["href"] # Null /\ attrs["href"].s # ""
         gatedNow == attrs["disabled"] # Null \/ attrs["loading"] # Null
     IN /\ (tree.kind = "a") <=> hrefSet
        /\ tree.kind \in {"a", "button"}
        /\ tree.disabledClass <=> gatedNow
        /\ tree.tabindex = (IF gatedNow THEN -1 ELSE 0)
        /\ (tree.role = "link") <=> (tree.kind = "a")
        /\ (tree.ariaDisabled # "") <=> (tree.kind = "button")
        /\ (tree.kind = "button") =>
              tree.ariaDisabled = (IF gatedNow THEN "true" ELSE "false")

\* a custom action disabled the link in the middle of an activation and the
\* tree was rendered again before the activation returned
C19_Witness ==
  /\ last.op = "click" /\ ~last.gated /\ last.renders = 1
  /\ attrs["disabled"] # Null
  /\ tree.kind = "a" /\ tree.disabledClass /\ tree.tabindex = -1

C21_GateEvaluatedOnce ==
  (/\ LastWasActivation /\ last.handled /\ ~last.gated
   /\ last.actionCalls = 1 /\ last.renders >= 1
   /\ attrs["disabled"] # Null \/ attrs["loading"] # Null)
    => /\ last.navs =
            (IF Truthy(href(attrs)) /\ ~last.prevented
             THEN << ExpectedNav >> ELSE << >>)
       /\ Len(last.events) = 1
       /\ last.events[1].type = "lume-click"
       /\ last.events[1].detail.href = href(attrs)
       /\ last.events[1].detail.variant = variant(attrs)
       /\ last.events[1].detail.size = size(attrs)

\* a pointer click on an ungated link whose custom action set loading and
\* changed the variant: the click navigated and its lume-click carries the
\* variant the action wrote
C21_Witness ==
  /\ last.op = "click" /\ last.handled /\ ~last.gated
  /\ last.actionCalls = 1 /\ last.renders = 2
  /\ attrs["loading"] # Null /\ attrs["disabled"] = Null
  /\ last.navs = << NavOpen("u") >>
  /\ Len(last.events) = 1
  /\ last.events[1].detail.variant = "ghost"
====
